---------------------------- MODULE Spec2Model ----------------------------
(***************************************************************************)
(* A model of TraceParse's storage layer (pkg/core):                       *)
(*   - ParseLine          (parse.go)  the record parser                    *)
(*   - FileCache          (cache.go)  line index, cache, prefetch worker   *)
(*   - TraceManager       (parse.go)  the windowed cursor                  *)
(* Text is a sequence of one-character strings, so that splitting,         *)
(* trimming and number parsing are computed character by character, and a  *)
(* file is a sequence of physical lines with their terminators, so that    *)
(* byte offsets are computed as the code computes them.                    *)
(***************************************************************************)
EXTENDS Integers, Sequences, FiniteSets, TLC

(***************************************************************************)
(* Values shared by all parts                                              *)
(***************************************************************************)
\* A pointer is a sequence of at most one element: Nil, or <<the object>>.
Nil == << >>

Ref(x) == << x >>

\* the empty text
Empty == << >>

Min(a, b) == IF a < b THEN a ELSE b

Max(a, b) == IF a > b THEN a ELSE b

\* a[lo..hi) in Go slice notation, on a 1-based sequence (lo, hi are 0-based)
Slice(s, lo, hi) == SubSeq(s, lo + 1, hi)

(***************************************************************************)
(* strings / strconv, as far as ParseLine uses them                        *)
(***************************************************************************)
\* the digits of strconv.ParseUint in value order: '0'..'9', 'a'..'z'
DigitChars ==
  << "0", "1", "2", "3", "4", "5", "6", "7", "8", "9",
     "a", "b", "c", "d", "e", "f", "g", "h", "i", "j", "k", "l", "m",
     "n", "o", "p", "q", "r", "s", "t", "u", "v", "w", "x", "y", "z" >>

UpperChars ==
  << "A", "B", "C", "D", "E", "F", "G", "H", "I", "J", "K", "L", "M",
     "N", "O", "P", "Q", "R", "S", "T", "U", "V", "W", "X", "Y", "Z" >>

\* strconv's lower(c): c | ('x' - 'X'), on letters
Lower(c) ==
  IF \E k \in 1..26 : UpperChars[k] = c
    THEN DigitChars[10 + (CHOOSE k \in 1..26 : UpperChars[k] = c)]
    ELSE c

\* the value of c as a digit, or 99 for a byte that is no digit in any base
DigitVal(c) ==
  IF \E k \in 1..36 : DigitChars[k] = Lower(c)
    THEN (CHOOSE k \in 1..36 : DigitChars[k] = Lower(c)) - 1
    ELSE 99

\* unicode.IsSpace on the bytes a trace line can hold
IsSpace(c) == c \in {" ", "\t", "\r", "\n"}

RECURSIVE TrimLeft(_)
TrimLeft(s) ==
  IF s # Empty /\ IsSpace(Head(s)) THEN TrimLeft(Tail(s)) ELSE s

RECURSIVE TrimRight(_)
TrimRight(s) ==
  IF s # Empty /\ IsSpace(s[Len(s)])
    THEN TrimRight(SubSeq(s, 1, Len(s) - 1))
    ELSE s

\* strings.TrimSpace
TrimSpace(s) == TrimRight(TrimLeft(s))

\* strings.HasPrefix / strings.HasSuffix with a one-byte argument
HasPrefix(s, c) == Len(s) >= 1 /\ s[1] = c

HasSuffix(s, c) == Len(s) >= 1 /\ s[Len(s)] = c

\* strings.Split(line, sep) for a one-byte sep: always at least one field
RECURSIVE SplitFrom(_, _, _)
SplitFrom(s, sep, cur) ==
  IF s = Empty THEN << cur >>
  ELSE IF Head(s) = sep THEN << cur >> \o SplitFrom(Tail(s), sep, Empty)
  ELSE SplitFrom(Tail(s), sep, Append(cur, Head(s)))

Split(s, sep) == SplitFrom(s, sep, Empty)

\* strconv.underscoreOK: underscores only between digits (or after a base prefix)
RECURSIVE UnderscoreScan(_, _, _, _)
UnderscoreScan(s, i, saw, hex) ==
  IF i > Len(s) THEN saw # "_"
  ELSE
    LET c == s[i]
        isDigit == \/ DigitVal(c) <= 9 /\ c \notin {"_"}
                   \/ hex /\ DigitVal(c) >= 10 /\ DigitVal(c) <= 15
    IN  IF isDigit THEN UnderscoreScan(s, i + 1, "0", hex)
        ELSE IF c = "_"
          THEN IF saw # "0" THEN FALSE ELSE UnderscoreScan(s, i + 1, "_", hex)
        ELSE IF saw = "_" THEN FALSE
        ELSE UnderscoreScan(s, i + 1, "!", hex)

UnderscoreOK(s0) ==
  LET s == IF Len(s0) >= 1 /\ s0[1] \in {"-", "+"} THEN Tail(s0) ELSE s0
      pre == Len(s) >= 2 /\ s[1] = "0" /\ Lower(s[2]) \in {"b", "o", "x"}
  IN  UnderscoreScan(s, IF pre THEN 3 ELSE 1, IF pre THEN "0" ELSE "^",
                     pre /\ Lower(s[2]) = "x")

\* the digit loop of strconv.ParseUint: the value, or -1 for a syntax error.
\* (A range error needs more digits than MaxFieldLen allows: see the bounds.)
RECURSIVE DigitLoop(_, _, _, _)
DigitLoop(s, base, base0, n) ==
  IF s = Empty THEN n
  ELSE
    LET c == Head(s)
    IN  IF c = "_" /\ base0 THEN DigitLoop(Tail(s), base, base0, n)
        ELSE IF DigitVal(c) >= base THEN -1
        ELSE DigitLoop(Tail(s), base, base0, n * base + DigitVal(c))

\* strconv.ParseUint(s, base, bits) for base 16 and base 0: [ok, val]
ParseUint(s0, base) ==
  IF s0 = Empty THEN [ok |-> FALSE, val |-> 0]
  ELSE
    LET base0 == base = 0
        pre == base0 /\ s0[1] = "0"
        long == pre /\ Len(s0) >= 3
        b == IF ~base0 THEN base
             ELSE IF ~pre THEN 10
             ELSE IF long /\ Lower(s0[2]) = "b" THEN 2
             ELSE IF long /\ Lower(s0[2]) = "o" THEN 8
             ELSE IF long /\ Lower(s0[2]) = "x" THEN 16
             ELSE 8
        s == IF ~pre THEN s0
             ELSE IF long /\ Lower(s0[2]) \in {"b", "o", "x"}
               THEN SubSeq(s0, 3, Len(s0))
             ELSE Tail(s0)
        n == DigitLoop(s, b, base0, 0)
        under == base0 /\ \E k \in 1..Len(s) : s[k] = "_"
    IN  IF n < 0 THEN [ok |-> FALSE, val |-> 0]
        ELSE IF under /\ ~UnderscoreOK(s0) THEN [ok |-> FALSE, val |-> 0]
        ELSE [ok |-> TRUE, val |-> n]

(***************************************************************************)
(* ParseLine (parse.go)                                                    *)
(***************************************************************************)
\* the field count ParseLine requires
NumFields == 37

\* the error values ParseLine builds with fmt.Errorf
CountError(n) == [kind |-> "count", name |-> "", n |-> n]

FieldError(name, i) == [kind |-> "field", name |-> name, n |-> i]

\* what a call of ParseLine yields: (line, err), or a run-time panic
Parsed(t) == [line |-> Ref(t), err |-> Nil, panic |-> FALSE]

Failed(e) == [line |-> Nil, err |-> Ref(e), panic |-> FALSE]

Panicked == [line |-> Nil, err |-> Nil, panic |-> TRUE]

\* fields[k] of the Go code (0-based), trimmed and parsed in the given base
NumField(fields, k, base) == ParseUint(TrimSpace(fields[k + 1]), base)

\* the registers x0..x30 are fields 4..34
RegOk(fields, i) == NumField(fields, 4 + i, 0).ok

\* t.Instr = t.Instr[1 : len(t.Instr)-1] panics when the bounds cross
InstrPanics(fields) ==
  LET instr == TrimSpace(fields[4])
  IN  HasPrefix(instr, "\"") /\ HasSuffix(instr, "\"") /\ 1 > Len(instr) - 1

InstrOf(fields) ==
  LET instr == TrimSpace(fields[4])
  IN  IF HasPrefix(instr, "\"") /\ HasSuffix(instr, "\"")
        THEN Slice(instr, 1, Len(instr) - 1)
        ELSE instr

ParseLine(line) ==
  LET fields == Split(line, "|")
  IN
  IF Len(fields) # NumFields THEN Failed(CountError(Len(fields)))
  ELSE IF ~NumField(fields, 0, 16).ok THEN Failed(FieldError("step", -1))
  ELSE IF ~NumField(fields, 1, 0).ok THEN Failed(FieldError("addr", -1))
  ELSE IF ~NumField(fields, 2, 0).ok THEN Failed(FieldError("offset", -1))
  ELSE IF InstrPanics(fields) THEN Panicked
  ELSE IF \E i \in 0..30 : ~RegOk(fields, i)
    THEN Failed(FieldError("x", CHOOSE i \in 0..30 :
                   ~RegOk(fields, i) /\ \A j \in 0..(i - 1) : RegOk(fields, j)))
  ELSE IF ~NumField(fields, 35, 0).ok THEN Failed(FieldError("sp", -1))
  ELSE IF ~NumField(fields, 36, 0).ok THEN Failed(FieldError("pc", -1))
  ELSE Parsed([Step   |-> NumField(fields, 0, 16).val,
               Addr   |-> NumField(fields, 1, 0).val,
               Offset |-> NumField(fields, 2, 0).val,
               Instr  |-> InstrOf(fields),
               Regs   |-> [i \in 1..31 |-> NumField(fields, 3 + i, 0).val],
               SP     |-> NumField(fields, 35, 0).val,
               PC     |-> NumField(fields, 36, 0).val])

(***************************************************************************)
(* Trace files.  A file is a sequence of physical lines; each is its text  *)
(* (no line terminator inside) and whether "\r\n" or "\n" ends it.         *)
(***************************************************************************)
\* one hexadecimal digit, as text
Hex(n) == << DigitChars[(n % 16) + 1] >>

RECURSIVE Join(_)
Join(fields) ==
  IF Len(fields) = 0 THEN Empty
  ELSE IF Len(fields) = 1 THEN fields[1]
  ELSE fields[1] \o << "|" >> \o Join(Tail(fields))

\* a 37-field line: step | addr | offset | "instr" | x0..x30 | sp | pc
RecordLine(step) ==
  Join(<< Hex(step), << "0", "x", "1", "0" >>, << "8" >>,
          << "\"", "n", "o", "p", "\"" >> >>
       \o [k \in 1..33 |-> IF k = 1 THEN << "0", "x" >> \o Hex(step)
                                 ELSE << "0" >>])

\* a 37-field line of the least length (73 bytes): every field one byte
ShortLine(step) ==
  Join(<< Hex(step), << "0" >>, << "0" >>, << "n" >> >>
       \o [k \in 1..33 |-> << "0" >>])

\* a line with 36 fields
Line36 == Join([k \in 1..36 |-> << "0" >>])

Lf(text) == [text |-> text, cr |-> FALSE]

CrLf(text) == [text |-> text, cr |-> TRUE]

\* the number of lines of the file crlf.log: one more than the bytes of one
\* of its lines, so that the last line's index error reaches a whole line
CrLfLines == 76

\* the number of lines of the file ten.log: more than two windows of the
\* trace manager, and more than two prefetch windows
TenLines == 10

\* the file system
FileAt(name) ==
  CASE name = "good.log"  -> [k \in 1..3 |-> Lf(RecordLine(k - 1))]
    [] name = "bad.log"   -> << Lf(RecordLine(0)), Lf(Line36), Lf(RecordLine(2)) >>
    [] name = "ten.log"   -> [k \in 1..TenLines |-> Lf(RecordLine(k - 1))]
    [] name = "crlf.log"  -> [k \in 1..CrLfLines |->
                                IF k = 1 THEN CrLf(Line36) ELSE CrLf(ShortLine(k - 1))]
    [] OTHER              -> << >>

\* the files of the file system
FileNames == {"good.log", "bad.log", "crlf.log", "ten.log"}

\* the files a cache in use is watched on
CacheFiles == {"good.log", "bad.log", "crlf.log"}

\* the files a trace manager reads
ManagerFiles == FileNames

\* bytes of physical line j (1-based) with its terminator
PhysLen(file, j) == Len(file[j].text) + (IF file[j].cr THEN 2 ELSE 1)

\* byte offset at which physical line j (1-based) starts; j = Len+1: the size
RECURSIVE StartOf(_, _)
StartOf(file, j) ==
  IF j <= 1 THEN 0 ELSE StartOf(file, j - 1) + PhysLen(file, j - 1)

\* bufio.Scanner with ScanLines: the tokens of a whole file, "\r" dropped
Tokens(file) == [j \in 1..Len(file) |-> file[j].text]

\* file.Seek(pos) then one scanner.Scan(): the token from byte pos up to the
\* next "\n" with a trailing "\r" dropped, or Nil at the end of the file
ScanAt(file, pos) ==
  IF pos >= StartOf(file, Len(file) + 1) THEN Nil
  ELSE
    LET j == CHOOSE k \in 1..Len(file) :
               StartOf(file, k) <= pos /\ pos < StartOf(file, k + 1)
        off == pos - StartOf(file, j)
    IN  Ref(IF off <= Len(file[j].text)
              THEN SubSeq(file[j].text, off + 1, Len(file[j].text))
              ELSE Empty)

(***************************************************************************)
(* FileCache (cache.go)                                                    *)
(***************************************************************************)
\* fc.prefetchWindow, scaled down from 200 to the size of the model's files
PrefetchWindow == 4

\* cap(fc.prefetchQueue), scaled down from 100
QueueCap == 2

\* cap(fc.stopPrefetch)
StopCap == 1

\* the capacities a cache is built with are 0..MaxCacheSize
MaxCacheSize == 2

\* the foreground goroutines that call GetLine and Clear
Callers == {"c1", "c2"}

\* the goroutines that run prefetchAround: NewFileCache's own and the worker
Prefetchers == {"ctor", "worker"}

Procs == Callers \cup Prefetchers \cup {"closer"}

None == "none"

VARIABLES
  filename,        \* fc.filename
  disk,            \* the file's bytes, by what a read at an offset yields
  linePositions,   \* fc.linePositions
  totalLines,      \* fc.totalLines
  cacheSize,       \* fc.cacheSize
  cache,           \* fc.cache: line number -> record
  cacheMutex,      \* fc.cacheMutex: writer, pending writer, active readers
  prefetchMutex,   \* fc.prefetchMutex: its holder
  prefetchQueue,   \* fc.prefetchQueue: the buffered values
  queueClosed,     \* close(fc.prefetchQueue) has run
  stopPrefetch,    \* fc.stopPrefetch: the buffered values
  stopClosed,      \* close(fc.stopPrefetch) has run
  pc,              \* where each goroutine stands
  index,           \* the index parameter of GetLine / prefetchAround
  line,            \* the local variable line of GetLine / prefetchAround
  loopI,           \* prefetchAround's loop variable i
  loopEnd,         \* prefetchAround's local end
  ret,             \* what each caller's last finished GetLine returned
  crashed          \* a goroutine panicked: the program is gone

cacheVars ==
  << filename, disk, linePositions, totalLines, cacheSize, cache, cacheMutex,
     prefetchMutex, prefetchQueue, queueClosed, stopPrefetch, stopClosed,
     pc, index, line, loopI, loopEnd, ret, crashed >>

(***************************************************************************)
(* TraceManager (parse.go): state                                          *)
(***************************************************************************)
VARIABLES
  Instructions,    \* tm.Instructions
  PrevLine,        \* tm.PrevLine
  CurrentIndex,    \* tm.CurrentIndex
  tmTotalLines,    \* tm.totalLines
  loadedRange,     \* tm.loadedRange
  tmLast,          \* the last call on the manager and what it returned
  scanned          \* what ParseLine makes of each line of each file the
                   \* manager reads (empty while no manager is in use)

tmVars ==
  << Instructions, PrevLine, CurrentIndex, tmTotalLines, loadedRange, tmLast,
     scanned >>

\* a call of ParseLine on its own
VARIABLES
  lineText,        \* the line ParseLine is called on
  parseResult      \* Nil before the call, then what the call yielded

parseVars == << lineText, parseResult >>

vars == << cacheVars, tmVars, parseVars >>

\* no call of ParseLine on its own is watched
NoParseCall == lineText = Empty /\ parseResult = Nil

\* NewTraceManager()
NewTraceManager ==
  /\ Instructions = << >>
  /\ PrevLine = Nil
  /\ CurrentIndex = 0
  /\ tmTotalLines = 0
  /\ loadedRange = << -1, -1 >>
  /\ tmLast = [op |-> "new", arg |-> 0, result |-> TRUE, panic |-> FALSE]

\* scanFile: the offset recorded for token k (1-based) of the scan
RECURSIVE ScanPos(_, _)
ScanPos(tokens, k) ==
  IF k <= 1 THEN 0 ELSE ScanPos(tokens, k - 1) + Len(tokens[k - 1]) + 1

ScanFile(file) ==
  [linePositions |-> [k \in 1..Len(Tokens(file)) |-> ScanPos(Tokens(file), k)],
   totalLines    |-> Len(Tokens(file))]

\* the line index of each file of the file system, as scanFile builds it
IndexOf == [name \in FileNames |-> ScanFile(FileAt(name))]

\* file.Seek(pos, 0), one scanner.Scan(), ParseLine: [line, panic]
LoadAtOffset(file, pos) ==
  LET tok == ScanAt(file, pos)
  IN  IF tok = Nil THEN [line |-> Nil, panic |-> FALSE]
      ELSE LET parsed == ParseLine(tok[1])
           IN  [line |-> parsed.line, panic |-> parsed.panic]

\* the trace file as the cache reads it: what a seek to an indexed offset and
\* one read find there (the file does not change while the cache is open)
ReadsOf(name) ==
  [pos \in {IndexOf[name].linePositions[k] : k \in 1..IndexOf[name].totalLines}
     |-> LoadAtOffset(FileAt(name), pos)]

\* loadLineFromFile(i): [line, panic]
LoadLineFromFile(i) ==
  IF i < 0 \/ i >= Len(linePositions) THEN [line |-> Nil, panic |-> FALSE]
  ELSE disk[linePositions[i + 1]]

\* the map m restricted to the keys in S
Restrict(m, S) == [k \in S |-> m[k]]

\* fc.cache[i] = t
Insert(m, i, t) == [k \in DOMAIN m \cup {i} |-> IF k = i THEN t ELSE m[k]]

\* Go's integer division, which truncates toward zero
GoDiv(a, b) == IF a >= 0 THEN a \div b ELSE -((-a) \div b)

\* evictOldEntries that deletes nothing
EvictNothing(m, size) == {m}

\* evictOldEntries that stops at the capacity, not at half of it
EvictToCapacity(m, size) ==
  IF Cardinality(DOMAIN m) <= size THEN {m}
  ELSE {Restrict(m, S) : S \in {T \in SUBSET DOMAIN m :
                                  Cardinality(T) = Max(size, 0)}}

\* evictOldEntries: the maps it can leave (the map's iteration order is
\* arbitrary): entries are deleted while more than cacheSize/2 remain
EvictOldEntries(m, size) ==
  LET targetSize == GoDiv(size, 2)
  IN  IF Cardinality(DOMAIN m) <= targetSize THEN {m}
      ELSE {Restrict(m, S) : S \in {T \in SUBSET DOMAIN m :
                                      Cardinality(T) = Max(targetSize, 0)}}

\* if len(fc.cache) > fc.cacheSize { fc.evictOldEntries() }
AfterInsertion(m, size) ==
  IF Cardinality(DOMAIN m) > size THEN EvictOldEntries(m, size) ELSE {m}

\* sync.RWMutex: the goroutine inside Lock()..Unlock(), the goroutine that has
\* called Lock() and waits for the readers to leave, the goroutines inside
\* RLock()..RUnlock().  RLock waits while a writer is inside or waiting.
FreeMutex == [writer |-> None, pending |-> None, readers |-> {}]

CanRLock == cacheMutex.writer = None /\ cacheMutex.pending = None

RLock(p) == [cacheMutex EXCEPT !.readers = @ \cup {p}]

\* a read section that is left without RUnlock()
RUnlockForgotten(p) == cacheMutex

RUnlock(p) == [cacheMutex EXCEPT !.readers = @ \ {p}]

\* Lock() can go ahead: no other writer is inside or waiting
CanLock == cacheMutex.writer = None /\ cacheMutex.pending = None

\* Lock() returns: no reader is inside
Locked(p) == [cacheMutex EXCEPT !.writer = p, !.pending = None]

Unlock == [cacheMutex EXCEPT !.writer = None]

\* a send that does not look at the room left in the queue
SendAnyway(q, i) == Append(q, i)

\* select { case fc.prefetchQueue <- i: default: }: the queue afterwards
TrySend(q, i) == IF Len(q) < QueueCap THEN Append(q, i) ELSE q

Goto(p, label) == pc' = [pc EXCEPT ![p] = label]

\* the indices the callers ask for: one on either side of the range, line 1,
\* and the last line of a file longer than the warm-up window
Indexes ==
  {-1, 1, totalLines} \cup
  (IF totalLines > PrefetchWindow THEN {totalLines - 1} ELSE {})

InitCache ==
  /\ filename \in FileNames
  /\ disk = ReadsOf(filename)
  /\ linePositions = IndexOf[filename].linePositions
  /\ totalLines = IndexOf[filename].totalLines
  /\ cacheSize \in 0..MaxCacheSize
  /\ cache = << >>
  /\ cacheMutex = FreeMutex
  /\ prefetchMutex = None
  /\ prefetchQueue = << >>
  /\ queueClosed = FALSE
  /\ stopPrefetch = << >>
  /\ stopClosed = FALSE
  /\ pc = [p \in Procs |-> CASE p = "ctor" -> "pfLock"
                             [] p = "worker" -> "select"
                             [] OTHER -> "idle"]
  /\ index = [p \in Callers \cup Prefetchers |-> 0]
  /\ line = [p \in Callers \cup Prefetchers |-> Nil]
  /\ loopI = [p \in Prefetchers |-> 0]
  /\ loopEnd = [p \in Prefetchers |-> 0]
  /\ ret = [c \in Callers |-> Nil]
  /\ crashed = FALSE

\* what no step of a cache changes: the file, its index, the capacity, and
\* the trace manager, which is a separate object
fixedVars ==
  << filename, disk, linePositions, totalLines, cacheSize, tmVars, parseVars >>

chanVars == << prefetchQueue, queueClosed, stopPrefetch, stopClosed >>

loopVars == << loopI, loopEnd >>

\* NewFileCache has returned: only then can anyone call the cache
Constructed == pc["ctor"] = "done"

\* what GetLine hands back to caller c
Return(c, i, t) == ret' = [ret EXCEPT ![c] = Ref([index |-> i, line |-> t])]

(***************************************************************************)
(* GetLine, one action per step between two points where goroutines can    *)
(* interleave                                                              *)
(***************************************************************************)
\* a GetLine that signals the prefetch worker before it checks the range
GetLine_SignalFirst(c, i) ==
  /\ ~crashed /\ Constructed /\ pc[c] = "idle"
  /\ prefetchQueue' = TrySend(prefetchQueue, i)
  /\ IF i < 0 \/ i >= totalLines
       THEN /\ Return(c, i, Nil)
            /\ UNCHANGED << pc, index >>
       ELSE /\ ret' = [ret EXCEPT ![c] = Nil]
            /\ index' = [index EXCEPT ![c] = i]
            /\ Goto(c, "rlock")
  /\ UNCHANGED << fixedVars, loopVars, queueClosed, stopPrefetch, stopClosed,
                  cache, cacheMutex, prefetchMutex, line, crashed >>

\* the call and its range check
GetLine_Call(c, i) ==
  /\ ~crashed /\ Constructed /\ pc[c] = "idle"
  /\ IF i < 0 \/ i >= totalLines
       THEN /\ Return(c, i, Nil)
            /\ UNCHANGED << pc, index >>
       ELSE /\ ret' = [ret EXCEPT ![c] = Nil]
            /\ index' = [index EXCEPT ![c] = i]
            /\ Goto(c, "rlock")
  /\ UNCHANGED << fixedVars, chanVars, loopVars, cache, cacheMutex,
                  prefetchMutex, line, crashed >>

\* fc.cacheMutex.RLock()
GetLine_RLock(c) ==
  /\ ~crashed /\ pc[c] = "rlock" /\ CanRLock
  /\ cacheMutex' = RLock(c)
  /\ Goto(c, "lookup")
  /\ UNCHANGED << fixedVars, chanVars, loopVars, cache, prefetchMutex,
                  index, line, ret, crashed >>

\* line, exists := fc.cache[index]; RUnlock(); on a miss (the lock is
\* released by then) line := fc.loadLineFromFile(index), nil is returned as is
GetLine_Lookup(c) ==
  /\ ~crashed /\ pc[c] = "lookup"
  /\ cacheMutex' = RUnlock(c)
  /\ IF index[c] \in DOMAIN cache
       THEN /\ line' = [line EXCEPT ![c] = Ref(cache[index[c]])]
            /\ Goto(c, "send")
            /\ UNCHANGED << index, ret, crashed >>
       ELSE LET r == LoadLineFromFile(index[c])
            IN  IF r.panic
                  THEN /\ crashed' = TRUE
                       /\ UNCHANGED << pc, index, line, ret >>
                ELSE IF r.line = Nil
                  THEN /\ Return(c, index[c], Nil)
                       /\ index' = [index EXCEPT ![c] = 0]
                       /\ Goto(c, "idle")
                       /\ UNCHANGED << line, crashed >>
                ELSE /\ line' = [line EXCEPT ![c] = r.line]
                     /\ Goto(c, "lock")
                     /\ UNCHANGED << index, ret, crashed >>
  /\ UNCHANGED << fixedVars, chanVars, loopVars, cache, prefetchMutex >>

\* fc.cacheMutex.Lock(), then fc.cache[index] = line; with readers inside,
\* Lock() first waits for them
GetLine_Lock(c) ==
  /\ ~crashed /\ pc[c] = "lock" /\ CanLock
  /\ IF cacheMutex.readers = {}
       THEN /\ cacheMutex' = Locked(c)
            /\ cache' = Insert(cache, index[c], line[c][1])
            /\ Goto(c, "evict")
       ELSE /\ cacheMutex' = [cacheMutex EXCEPT !.pending = c]
            /\ Goto(c, "lockWait")
            /\ UNCHANGED cache
  /\ UNCHANGED << fixedVars, chanVars, loopVars, prefetchMutex,
                  index, line, ret, crashed >>

\* the last reader has left: Lock() returns, then fc.cache[index] = line
GetLine_LockWait(c) ==
  /\ ~crashed /\ pc[c] = "lockWait" /\ cacheMutex.readers = {}
  /\ cacheMutex' = Locked(c)
  /\ cache' = Insert(cache, index[c], line[c][1])
  /\ Goto(c, "evict")
  /\ UNCHANGED << fixedVars, chanVars, loopVars, prefetchMutex,
                  index, line, ret, crashed >>

\* if len(fc.cache) > fc.cacheSize { fc.evictOldEntries() }; Unlock()
GetLine_Evict(c) ==
  /\ ~crashed /\ pc[c] = "evict"
  /\ cache' \in AfterInsertion(cache, cacheSize)
  /\ cacheMutex' = Unlock
  /\ Goto(c, "send")
  /\ UNCHANGED << fixedVars, chanVars, loopVars, prefetchMutex,
                  index, line, ret, crashed >>

\* select { case fc.prefetchQueue <- index: default: }; return line
\* (a send on a closed channel panics, whether or not the buffer is full)
GetLine_Send(c) ==
  /\ ~crashed /\ pc[c] = "send"
  /\ IF queueClosed
       THEN /\ crashed' = TRUE
            /\ UNCHANGED << prefetchQueue, pc, index, line, ret >>
       ELSE /\ prefetchQueue' = TrySend(prefetchQueue, index[c])
            /\ Return(c, index[c], line[c])
            /\ index' = [index EXCEPT ![c] = 0]
            /\ line' = [line EXCEPT ![c] = Nil]
            /\ Goto(c, "idle")
            /\ UNCHANGED crashed
  /\ UNCHANGED << fixedVars, loopVars, queueClosed, stopPrefetch, stopClosed,
                  cache, cacheMutex, prefetchMutex >>

(***************************************************************************)
(* Clear                                                                   *)
(***************************************************************************)
\* the call: the caller now stands at fc.cacheMutex.Lock()
Clear_Call(c) ==
  /\ ~crashed /\ Constructed /\ pc[c] = "idle"
  /\ ret' = [ret EXCEPT ![c] = Nil]
  /\ Goto(c, "clear")
  /\ UNCHANGED << fixedVars, chanVars, loopVars, cache, cacheMutex,
                  prefetchMutex, index, line, crashed >>

\* Lock(), then fc.cache = make(map[int]*TraceLine); Unlock(); with readers
\* inside, Lock() first waits for them
Clear_Lock(c) ==
  /\ ~crashed /\ pc[c] = "clear" /\ CanLock
  /\ IF cacheMutex.readers = {}
       THEN /\ cache' = << >>
            /\ Goto(c, "idle")
            /\ UNCHANGED cacheMutex
       ELSE /\ cacheMutex' = [cacheMutex EXCEPT !.pending = c]
            /\ Goto(c, "clearWait")
            /\ UNCHANGED cache
  /\ UNCHANGED << fixedVars, chanVars, loopVars, prefetchMutex,
                  index, line, ret, crashed >>

\* the last reader has left: Lock() returns, the map is replaced, Unlock()
Clear_LockWait(c) ==
  /\ ~crashed /\ pc[c] = "clearWait" /\ cacheMutex.readers = {}
  /\ cacheMutex' = [cacheMutex EXCEPT !.pending = None]
  /\ cache' = << >>
  /\ Goto(c, "idle")
  /\ UNCHANGED << fixedVars, chanVars, loopVars, prefetchMutex,
                  index, line, ret, crashed >>

(***************************************************************************)
(* prefetchAround, run by NewFileCache (index 0) and by the worker         *)
(***************************************************************************)
\* the first line prefetchAround(index) looks at
PrefetchStart(i) == Max(i - GoDiv(PrefetchWindow, 2), 0)

\* one past the last line prefetchAround(index) looks at
PrefetchEnd(i) == Min(PrefetchStart(i) + PrefetchWindow, totalLines)

\* fc.prefetchMutex.Lock(); start, end := ...
Prefetch_Begin(p) ==
  /\ ~crashed /\ pc[p] = "pfLock" /\ prefetchMutex = None
  /\ prefetchMutex' = p
  /\ loopI' = [loopI EXCEPT ![p] = PrefetchStart(index[p])]
  /\ loopEnd' = [loopEnd EXCEPT ![p] = PrefetchEnd(index[p])]
  /\ Goto(p, "pfLoop")
  /\ UNCHANGED << fixedVars, chanVars, cache, cacheMutex, index, line, ret, crashed >>

\* the loop has ended: the deferred fc.prefetchMutex.Unlock(), and return
Prefetch_Return(p) ==
  /\ ~crashed /\ pc[p] = "pfLoop" /\ loopI[p] >= loopEnd[p]
  /\ prefetchMutex' = None
  /\ loopI' = [loopI EXCEPT ![p] = 0]
  /\ loopEnd' = [loopEnd EXCEPT ![p] = 0]
  /\ index' = [index EXCEPT ![p] = 0]
  /\ Goto(p, IF p = "worker" THEN "select" ELSE "done")
  /\ UNCHANGED << fixedVars, chanVars, cache, cacheMutex, line, ret, crashed >>

\* i < end: fc.cacheMutex.RLock()
Prefetch_RLock(p) ==
  /\ ~crashed /\ pc[p] = "pfLoop" /\ loopI[p] < loopEnd[p] /\ CanRLock
  /\ cacheMutex' = RLock(p)
  /\ Goto(p, "pfLookup")
  /\ UNCHANGED << fixedVars, chanVars, loopVars, cache, prefetchMutex,
                  index, line, ret, crashed >>

\* _, exists := fc.cache[i]; RUnlock(); if !exists, line :=
\* fc.loadLineFromFile(i), and a nil line is skipped
Prefetch_Lookup(p) ==
  /\ ~crashed /\ pc[p] = "pfLookup"
  /\ cacheMutex' = RUnlock(p)
  /\ IF loopI[p] \in DOMAIN cache
       THEN /\ loopI' = [loopI EXCEPT ![p] = @ + 1]
            /\ Goto(p, "pfLoop")
            /\ UNCHANGED << line, crashed >>
       ELSE LET r == LoadLineFromFile(loopI[p])
            IN  IF r.panic
                  THEN /\ crashed' = TRUE
                       /\ UNCHANGED << pc, loopI, line >>
                ELSE IF r.line = Nil
                  THEN /\ loopI' = [loopI EXCEPT ![p] = @ + 1]
                       /\ Goto(p, "pfLoop")
                       /\ UNCHANGED << line, crashed >>
                ELSE /\ line' = [line EXCEPT ![p] = r.line]
                     /\ Goto(p, "pfInsert")
                     /\ UNCHANGED << loopI, crashed >>
  /\ UNCHANGED << fixedVars, chanVars, loopEnd, cache, prefetchMutex, index, ret >>

\* fc.cacheMutex.Lock(), then fc.cache[i] = line; with readers inside,
\* Lock() first waits for them
Prefetch_Lock(p) ==
  /\ ~crashed /\ pc[p] = "pfInsert" /\ CanLock
  /\ IF cacheMutex.readers = {}
       THEN /\ cacheMutex' = Locked(p)
            /\ cache' = Insert(cache, loopI[p], line[p][1])
            /\ Goto(p, "pfEvict")
       ELSE /\ cacheMutex' = [cacheMutex EXCEPT !.pending = p]
            /\ Goto(p, "pfLockWait")
            /\ UNCHANGED cache
  /\ UNCHANGED << fixedVars, chanVars, loopVars, prefetchMutex,
                  index, line, ret, crashed >>

\* the last reader has left: Lock() returns, then fc.cache[i] = line
Prefetch_LockWait(p) ==
  /\ ~crashed /\ pc[p] = "pfLockWait" /\ cacheMutex.readers = {}
  /\ cacheMutex' = Locked(p)
  /\ cache' = Insert(cache, loopI[p], line[p][1])
  /\ Goto(p, "pfEvict")
  /\ UNCHANGED << fixedVars, chanVars, loopVars, prefetchMutex,
                  index, line, ret, crashed >>

\* if len(fc.cache) > fc.cacheSize { fc.evictOldEntries() }; Unlock(); i++
Prefetch_Evict(p) ==
  /\ ~crashed /\ pc[p] = "pfEvict"
  /\ cache' \in AfterInsertion(cache, cacheSize)
  /\ cacheMutex' = Unlock
  /\ loopI' = [loopI EXCEPT ![p] = @ + 1]
  /\ line' = [line EXCEPT ![p] = Nil]
  /\ Goto(p, "pfLoop")
  /\ UNCHANGED << fixedVars, chanVars, loopEnd, prefetchMutex, index, ret, crashed >>

(***************************************************************************)
(* prefetchWorker: select over the queue and the stop channel.  A closed   *)
(* channel is always ready to receive (the zero value once it is drained), *)
(* and select picks among the ready cases at random.                       *)
(***************************************************************************)
CanReceive(ch, closed) == Len(ch) > 0 \/ closed

\* case index := <-fc.prefetchQueue: fc.prefetchAround(index)
Worker_TakeIndex ==
  /\ ~crashed /\ pc["worker"] = "select"
  /\ CanReceive(prefetchQueue, queueClosed)
  /\ index' = [index EXCEPT !["worker"] =
                 IF Len(prefetchQueue) > 0 THEN Head(prefetchQueue) ELSE 0]
  /\ prefetchQueue' = IF Len(prefetchQueue) > 0 THEN Tail(prefetchQueue) ELSE << >>
  /\ Goto("worker", "pfLock")
  /\ UNCHANGED << fixedVars, loopVars, queueClosed, stopPrefetch, stopClosed,
                  cache, cacheMutex, prefetchMutex, line, ret, crashed >>

\* case <-fc.stopPrefetch: return
Worker_Stop ==
  /\ ~crashed /\ pc["worker"] = "select"
  /\ CanReceive(stopPrefetch, stopClosed)
  /\ stopPrefetch' = IF Len(stopPrefetch) > 0 THEN Tail(stopPrefetch) ELSE << >>
  /\ Goto("worker", "exited")
  /\ UNCHANGED << fixedVars, loopVars, prefetchQueue, queueClosed, stopClosed,
                  cache, cacheMutex, prefetchMutex, index, line, ret, crashed >>

(***************************************************************************)
(* Close, called once                                                      *)
(***************************************************************************)
\* fc.stopPrefetch <- true
Close_SendStop ==
  /\ ~crashed /\ Constructed /\ pc["closer"] = "idle"
  /\ Len(stopPrefetch) < StopCap
  /\ stopPrefetch' = Append(stopPrefetch, TRUE)
  /\ Goto("closer", "closeQueue")
  /\ UNCHANGED << fixedVars, loopVars, prefetchQueue, queueClosed, stopClosed,
                  cache, cacheMutex, prefetchMutex, index, line, ret, crashed >>

\* close(fc.prefetchQueue)
Close_Queue ==
  /\ ~crashed /\ pc["closer"] = "closeQueue"
  /\ queueClosed' = TRUE
  /\ Goto("closer", "closeStop")
  /\ UNCHANGED << fixedVars, loopVars, prefetchQueue, stopPrefetch, stopClosed,
                  cache, cacheMutex, prefetchMutex, index, line, ret, crashed >>

\* close(fc.stopPrefetch)
Close_Stop ==
  /\ ~crashed /\ pc["closer"] = "closeStop"
  /\ stopClosed' = TRUE
  /\ Goto("closer", "closed")
  /\ UNCHANGED << fixedVars, loopVars, prefetchQueue, queueClosed, stopPrefetch,
                  cache, cacheMutex, prefetchMutex, index, line, ret, crashed >>

(***************************************************************************)
(* The cache and its goroutines                                            *)
(***************************************************************************)
Init ==
  /\ InitCache /\ filename \in CacheFiles
  /\ NewTraceManager /\ scanned = << >> /\ NoParseCall

PrefetchStep(p) ==
  \/ Prefetch_Begin(p)
  \/ Prefetch_Return(p)
  \/ Prefetch_RLock(p)
  \/ Prefetch_Lookup(p)
  \/ Prefetch_Lock(p)
  \/ Prefetch_LockWait(p)
  \/ Prefetch_Evict(p)

CallerStep(c) ==
  \/ \E i \in Indexes : GetLine_Call(c, i)
  \/ GetLine_RLock(c)
  \/ GetLine_Lookup(c)
  \/ GetLine_Lock(c)
  \/ GetLine_LockWait(c)
  \/ GetLine_Evict(c)
  \/ GetLine_Send(c)
  \/ Clear_Call(c)
  \/ Clear_Lock(c)
  \/ Clear_LockWait(c)

\* a cache in use: GetLine and Clear from the callers, the worker prefetching
Next ==
  \/ \E c \in Callers : CallerStep(c)
  \/ \E p \in Prefetchers : PrefetchStep(p)
  \/ Worker_TakeIndex

Spec == Init /\ [][Next]_vars

\* the same, and Close is called once, at any time
NextClose ==
  \/ Next
  \/ Worker_Stop
  \/ Close_SendStop
  \/ Close_Queue
  \/ Close_Stop

\* Close is watched on one file, with every capacity
InitClose == Init /\ filename = "good.log"

SpecClose == InitClose /\ [][NextClose]_vars

\* a cache in use on a file longer than two prefetch windows, with the
\* least capacity
InitTen ==
  /\ InitCache /\ filename = "ten.log" /\ cacheSize = 0
  /\ NewTraceManager /\ scanned = << >> /\ NoParseCall

SpecTen == InitTen /\ [][Next]_vars

\* the steps of a call that is under way (everything but the call itself)
CallerProgress(c) ==
  \/ GetLine_RLock(c)
  \/ GetLine_Lookup(c)
  \/ GetLine_Lock(c)
  \/ GetLine_LockWait(c)
  \/ GetLine_Evict(c)
  \/ GetLine_Send(c)
  \/ Clear_Lock(c)
  \/ Clear_LockWait(c)

\* the Go scheduler runs every goroutine that can run, and a goroutine
\* waiting for a mutex gets it once it is free often enough (sync.Mutex
\* hands the lock to a starving waiter)
Fairness ==
  /\ \A c \in Callers : SF_vars(CallerProgress(c))
  /\ \A p \in Prefetchers : SF_vars(PrefetchStep(p))
  /\ SF_vars(Worker_TakeIndex)

\* termination is watched on one file, with a capacity that makes every
\* second insertion evict
InitLive == Init /\ filename = "good.log" /\ cacheSize = 1

SpecLive == InitLive /\ [][Next]_vars /\ Fairness

(***************************************************************************)
(* TraceManager (parse.go): operations                                     *)
(***************************************************************************)
\* windowSize := 2000, scaled to the window of four records
WindowSize == 4

\* the most records a manager is grown to by AddInstruction
MaxInstructions == 5

\* the files ReadTraceFile is called on; missing.log does not exist
TraceFiles == ManagerFiles \cup {"missing.log"}

\* the indexes GoTo is called with: around zero, around the window's end,
\* around the end of the file
GoToIndexes ==
  {-1, 0, 1, WindowSize - 1, WindowSize, WindowSize + 2,
   tmTotalLines - 1, tmTotalLines}

\* scanner.Text() and ParseLine on every line of every file
ScannedFiles ==
  [name \in ManagerFiles |->
     [k \in 1..Len(Tokens(FileAt(name))) |-> ParseLine(Tokens(FileAt(name))[k])]]

\* the record AddInstruction is handed: one parsed by the caller
AddedRecord == scanned["good.log"][2].line

Called(op, arg, result, panic) ==
  [op |-> op, arg |-> arg, result |-> result, panic |-> panic]

\* no call has panicked: the program is still running
Running == ~tmLast.panic

GetCurrent ==
  IF CurrentIndex < 0 \/ CurrentIndex >= Len(Instructions)
    THEN Nil
    ELSE Instructions[CurrentIndex + 1]

TraceManager_GetLine(i) ==
  IF i >= 0 /\ i < Len(Instructions) THEN Instructions[i + 1] ELSE Nil

TraceManager_Total == tmTotalLines

\* the window ReadTraceFile chooses: [start, end)
WindowStart(lineCount) ==
  LET start == IF CurrentIndex > GoDiv(WindowSize, 2)
                 THEN Max(CurrentIndex - GoDiv(WindowSize, 2), 0)
                 ELSE 0
  IN  IF start + WindowSize > lineCount
        THEN Max(lineCount - WindowSize, 0)
        ELSE start

WindowEnd(lineCount) ==
  LET start == IF CurrentIndex > GoDiv(WindowSize, 2)
                 THEN Max(CurrentIndex - GoDiv(WindowSize, 2), 0)
                 ELSE 0
  IN  Min(start + WindowSize, lineCount)

\* the second scan of ReadTraceFile from token k (1-based) on, currentLine
\* being the loop's line counter: a line that does not parse is skipped by
\* "continue", which also skips currentLine++
RECURSIVE LoadWindow(_, _, _, _, _, _)
LoadWindow(lines, k, currentLine, start, end, loaded) ==
  IF k > Len(lines) THEN [instructions |-> loaded, panic |-> FALSE]
  ELSE
    LET inside == currentLine >= start /\ currentLine < end
        parsed == lines[k]
    IN  IF inside /\ parsed.panic
          THEN [instructions |-> loaded, panic |-> TRUE]
        ELSE IF inside /\ parsed.line = Nil
          THEN LoadWindow(lines, k + 1, currentLine, start, end, loaded)
        ELSE
          LET next == IF inside THEN Append(loaded, parsed.line) ELSE loaded
          IN  IF currentLine + 1 >= end
                THEN [instructions |-> next, panic |-> FALSE]
                ELSE LoadWindow(lines, k + 1, currentLine + 1, start, end, next)

ReadTraceFile(name) ==
  /\ Running
  /\ IF name \notin ManagerFiles
       THEN /\ tmLast' = Called("read", 0, FALSE, FALSE)
            /\ UNCHANGED << Instructions, PrevLine, CurrentIndex, tmTotalLines,
                            loadedRange >>
       ELSE LET lines     == scanned[name]
                lineCount == Len(lines)
                start     == WindowStart(lineCount)
                end       == WindowEnd(lineCount)
                \* the lines before start are counted whatever they hold
                window    == LoadWindow(lines, start + 1, start, start, end, << >>)
            IN  /\ tmTotalLines' = lineCount
                /\ loadedRange' = << start, end >>
                /\ Instructions' = window.instructions
                /\ tmLast' = Called("read", 0, ~window.panic, window.panic)
                /\ UNCHANGED << PrevLine, CurrentIndex >>
  /\ UNCHANGED << scanned, cacheVars, parseVars >>

\* a Next() whose bound is the length, not the last index
Next_PastTheEnd ==
  /\ Running
  /\ IF CurrentIndex < Len(Instructions)
       THEN /\ PrevLine' = GetCurrent
            /\ CurrentIndex' = CurrentIndex + 1
            /\ tmLast' = Called("next", 0, TRUE, FALSE)
       ELSE /\ tmLast' = Called("next", 0, FALSE, FALSE)
            /\ UNCHANGED << PrevLine, CurrentIndex >>
  /\ UNCHANGED << Instructions, tmTotalLines, loadedRange, scanned, cacheVars, parseVars >>

TraceManager_Next ==
  /\ Running
  /\ IF CurrentIndex < Len(Instructions) - 1
       THEN /\ PrevLine' = GetCurrent
            /\ CurrentIndex' = CurrentIndex + 1
            /\ tmLast' = Called("next", 0, TRUE, FALSE)
       ELSE /\ tmLast' = Called("next", 0, FALSE, FALSE)
            /\ UNCHANGED << PrevLine, CurrentIndex >>
  /\ UNCHANGED << Instructions, tmTotalLines, loadedRange, scanned, cacheVars, parseVars >>

\* tm.Instructions[tm.CurrentIndex-1] panics when the index is past the slice
TraceManager_Prev ==
  /\ Running
  /\ IF CurrentIndex > 0
       THEN /\ CurrentIndex' = CurrentIndex - 1
            /\ IF CurrentIndex - 2 >= 0
                 THEN IF CurrentIndex - 2 < Len(Instructions)
                        THEN /\ PrevLine' = Instructions[CurrentIndex - 1]
                             /\ tmLast' = Called("prev", 0, TRUE, FALSE)
                        ELSE /\ PrevLine' = PrevLine
                             /\ tmLast' = Called("prev", 0, FALSE, TRUE)
                 ELSE /\ PrevLine' = Nil
                      /\ tmLast' = Called("prev", 0, TRUE, FALSE)
       ELSE /\ tmLast' = Called("prev", 0, FALSE, FALSE)
            /\ UNCHANGED << PrevLine, CurrentIndex >>
  /\ UNCHANGED << Instructions, tmTotalLines, loadedRange, scanned, cacheVars, parseVars >>

GoTo(i) ==
  /\ Running
  /\ IF i >= 0 /\ i < tmTotalLines
       THEN /\ PrevLine' = IF i - 1 >= 0 THEN TraceManager_GetLine(i - 1) ELSE Nil
            /\ CurrentIndex' = i
            /\ tmLast' = Called("goto", i, TRUE, FALSE)
       ELSE /\ tmLast' = Called("goto", i, FALSE, FALSE)
            /\ UNCHANGED << PrevLine, CurrentIndex >>
  /\ UNCHANGED << Instructions, tmTotalLines, loadedRange, scanned, cacheVars, parseVars >>

AddInstruction(t) ==
  /\ Running
  /\ Len(Instructions) < MaxInstructions
  /\ Instructions' = Append(Instructions, t)
  /\ tmTotalLines' = Len(Instructions) + 1
  /\ tmLast' = Called("add", 0, TRUE, FALSE)
  /\ UNCHANGED << PrevLine, CurrentIndex, loadedRange, scanned, cacheVars, parseVars >>

\* a manager in use, beside a cache that is left alone
InitTM ==
  /\ InitCache /\ filename = "good.log" /\ cacheSize = 0
  /\ NewTraceManager /\ scanned = ScannedFiles /\ NoParseCall

NextTM ==
  \/ \E name \in TraceFiles : ReadTraceFile(name)
  \/ TraceManager_Next
  \/ TraceManager_Prev
  \/ \E i \in GoToIndexes : GoTo(i)
  \/ AddInstruction(AddedRecord)

SpecTM == InitTM /\ [][NextTM]_vars

(***************************************************************************)
(* ParseLine called on its own, on lines built field by field             *)
(***************************************************************************)
\* 37 well-formed fields: every number "0", the instruction "n"
BaseFields == [k \in 1..NumFields |-> IF k = 4 THEN << "n" >> ELSE << "0" >>]

\* the fields with field k (0-based) replaced by text
WithField(fields, k, text) == [fields EXCEPT ![k + 1] = text]

\* number texts strconv accepts in base 0, and texts it rejects in every base
GoodNumbers ==
  { << "7" >>, << " ", "7", " " >>, << "0", "x", "1", "f" >>, << "1", "_", "0" >> }

BadNumbers == { Empty, << "g" >>, << "0", "x" >>, << "-", "1" >>, << "_", "1" >> }

\* texts of the instruction field: empty, blank, one character, a lone
\* quote, quotes around nothing, around text, on one side, in two layers
InstrTexts ==
  { Empty, << " " >>, << "a" >>, << "\"" >>, << " ", "\"", " " >>,
    << "\"", "\"" >>, << "\"", "a", "\"" >>, << " ", "\"", "a", " ", "b", "\"", " " >>,
    << "\"", "a" >>, << "a", "\"" >>, << "\"", "\"", "a", "\"", "\"" >> }

\* the 0-based numbers of the numeric fields
NumericFields == (0..(NumFields - 1)) \ {3}

\* the fields two of which are malformed together
PairFields == {0, 1, 2, 4, 32, 33, 34, 35, 36}

\* the field counts tried beside 37
FieldCounts == {1, 2, NumFields - 1, NumFields + 1}

ParseInputs ==
  { Join([k \in 1..n |-> << "0" >>]) : n \in FieldCounts }
    \cup { Empty }
    \cup { Join(WithField(BaseFields, k, t)) :
             k \in NumericFields, t \in GoodNumbers \cup BadNumbers }
    \cup { Join(WithField(WithField(BaseFields, j, << "g" >>), k, Empty)) :
             j \in PairFields, k \in PairFields }
    \cup { Join(WithField(WithField(BaseFields, 3, q), k, t)) :
             q \in InstrTexts, k \in {4, 36}, t \in { << "0" >>, << "g" >> } }

InitParse ==
  /\ InitCache /\ filename = "good.log" /\ cacheSize = 0
  /\ NewTraceManager /\ scanned = << >>
  /\ lineText \in ParseInputs
  /\ parseResult = Nil

\* ParseLine(line)
ParseLine_Call ==
  /\ parseResult = Nil
  /\ parseResult' = Ref(ParseLine(lineText))
  /\ UNCHANGED << lineText, cacheVars, tmVars >>

SpecParse == InitParse /\ [][ParseLine_Call]_vars

(***************************************************************************)
(* Claims about the cache                                                  *)
(***************************************************************************)
OutOfRange(i) == i < 0 \/ i >= totalLines

\* C1: whenever no goroutine is inside cacheMutex.Lock()..Unlock() (no
\* insertion is in progress), the cache holds at most cacheSize entries,
\* whatever GetLine calls, prefetches and Clear calls have run.
C1_SizeWithinCapacity ==
  cacheMutex.writer = None => Cardinality(DOMAIN cache) <= cacheSize

\* a full cache of capacity 2 after a caller's own insertion
C1_Witness ==
  /\ cacheMutex.writer = None
  /\ cacheSize = 2
  /\ Cardinality(DOMAIN cache) = cacheSize
  /\ \E c \in Callers : pc[c] = "send" /\ index[c] \in DOMAIN cache

\* C2: a GetLine(i) with i < 0 or i >= Total() returns nil, and its step
\* changes neither the cache map nor the prefetch queue.
C2_OutOfRangeReturnsNil ==
  [][\A c \in Callers :
       (ret'[c] # Nil /\ ret'[c] # ret[c] /\ OutOfRange(ret'[c][1].index))
         => /\ ret'[c][1].line = Nil
            /\ pc[c] = "idle" /\ pc' = pc
            /\ cache' = cache
            /\ prefetchQueue' = prefetchQueue]_vars

\* both callers were answered nil, one below and one above the range, while
\* the cache and the queue hold something
C2_Witness ==
  /\ ret["c1"] = Ref([index |-> -1, line |-> Nil])
  /\ ret["c2"] = Ref([index |-> totalLines, line |-> Nil])
  /\ cache # << >>
  /\ prefetchQueue # << >>

\* the Record of physical line i (0-based) of the cache's file: what
\* ParseLine makes of the i-th line the scanner finds
PhysicalRecord(i) == ParseLine(Tokens(FileAt(filename))[i + 1]).line

\* C3: every non-nil value GetLine(i) returns is the Record parsed from
\* physical line i of the file.
C3_ReturnsRecordOfLine ==
  \A c \in Callers :
    (ret[c] # Nil /\ ret[c][1].line # Nil)
      => ret[c][1].line = PhysicalRecord(ret[c][1].index)

\* some line of the file does not parse
HasBadLine == \E i \in 0..(totalLines - 1) : PhysicalRecord(i) = Nil

\* C4: when a line of the file does not parse, GetLine on it returns nil,
\* Total() counts it, its key never enters the cache map, and GetLine on any
\* line that does parse returns that line's Record.
C4_BadLineIsNilOthersServed ==
  /\ totalLines = Len(FileAt(filename))
  /\ \A k \in DOMAIN cache : PhysicalRecord(k) # Nil
  /\ \A c \in Callers :
       (ret[c] # Nil /\ ~OutOfRange(ret[c][1].index))
         => \/ ret[c][1].line = PhysicalRecord(ret[c][1].index)
            \/ ~HasBadLine

\* C5: the queue never holds more than its capacity; a caller standing at
\* the enqueue can always take its step (it never waits for room); with the
\* queue full that step leaves the queue as it is; and full or not, the
\* call returns the Record it holds.
C5_EnqueueNeverBlocks ==
  [][\A c \in Callers :
       pc[c] = "send"
         => /\ Len(prefetchQueue) <= QueueCap
            /\ Len(prefetchQueue') <= QueueCap
            /\ ENABLED GetLine_Send(c)
            /\ pc'[c] # "send"
                 => /\ ret'[c] = Ref([index |-> index[c], line |-> line[c]])
                    /\ line[c] # Nil
                    /\ Len(prefetchQueue) = QueueCap
                         => prefetchQueue' = prefetchQueue]_vars

\* a caller stands at the enqueue with the queue full, and the other caller
\* has been answered a Record
C5_Witness ==
  \E c, d \in Callers :
    /\ pc[c] = "send" /\ Len(prefetchQueue) = QueueCap
    /\ ret[d] # Nil /\ ret[d][1].line # Nil

\* C6: under fair scheduling no thread waits forever on cacheMutex or
\* prefetchMutex: every GetLine or Clear call that is under way returns, the
\* warm-up prefetch of the constructor finishes, and every prefetchAround
\* the worker starts comes back to the worker's select.
C6_EveryCallReturns ==
  /\ \A c \in Callers : (pc[c] # "idle") ~> (pc[c] = "idle")
  /\ <>(pc["ctor"] = "done")
  /\ (pc["worker"] # "select") ~> (pc["worker"] = "select")

\* a caller waits for the write lock behind a reader while the worker, inside
\* prefetchAround with prefetchMutex held, waits to read
C6_Witness ==
  \E c, d \in Callers :
    /\ pc[c] \in {"lockWait", "clearWait"}
    /\ d \in cacheMutex.readers
    /\ prefetchMutex = "worker" /\ pc["worker"] = "pfLoop"

\* C7: once Close has sent the stop signal, the worker takes nothing more
\* from the queue and starts no further prefetchAround.
C7_NoPrefetchAfterStop ==
  [][(pc["closer"] # "idle" /\ pc["worker"] = "select")
       => pc'["worker"] # "pfLock"]_vars

\* goroutine p takes the step that follows its insertion: the capacity test,
\* evictOldEntries when it applies, and Unlock()
AfterInsertionStep(p) == pc[p] \in {"evict", "pfEvict"} /\ pc'[p] # pc[p]

\* a caller's Clear() replaces the map
ClearStep ==
  \E c \in Callers : pc[c] \in {"clear", "clearWait"} /\ pc'[c] = "idle"

\* C18: entries leave the cache (other than by Clear) only in the step after
\* an insertion that made the size exceed the capacity, taken by the holder
\* of the exclusive lock; that step leaves exactly floor(capacity/2) entries,
\* each with its key and Record unchanged; after an insertion that leaves
\* the size within the capacity nothing is removed.
C18_EvictionToHalf ==
  [][/\ \A p \in Procs :
          AfterInsertionStep(p)
            => /\ cacheMutex.writer = p
               /\ IF Cardinality(DOMAIN cache) > cacheSize
                    THEN /\ Cardinality(DOMAIN cache') = cacheSize \div 2
                         /\ DOMAIN cache' \subseteq DOMAIN cache
                         /\ \A k \in DOMAIN cache' : cache'[k] = cache[k]
                    ELSE cache' = cache
     /\ (DOMAIN cache \ DOMAIN cache' # {} /\ ~ClearStep)
          => \E p \in Procs :
               AfterInsertionStep(p) /\ Cardinality(DOMAIN cache) > cacheSize]_vars

\* a prefetching goroutine holds the exclusive lock after an insertion that
\* made a cache of capacity 2 hold 3 entries, while one caller waits to read
\* and the other to insert
C18_Witness ==
  \E p \in Prefetchers :
    /\ pc[p] = "pfEvict" /\ cacheMutex.writer = p
    /\ cacheSize = 2 /\ Cardinality(DOMAIN cache) = 3
    /\ \E c, d \in Callers : pc[c] = "rlock" /\ pc[d] = "lock"

\* the lines of [t - window/2, t + window/2) clipped to [0, Total())
Neighbourhood(t) ==
  { i \in 0..(totalLines - 1) :
      /\ t - GoDiv(PrefetchWindow, 2) <= i
      /\ i < t + GoDiv(PrefetchWindow, 2) }

\* C19: for each index t the worker takes from the queue, the lines its
\* prefetchAround(t) goes through are exactly the lines of
\* [t - window/2, t + window/2) clipped to [0, Total()), and every line it
\* loads (one not cached) is one of them.
C19_PrefetchNeighbourhood ==
  [][LET t == index["worker"]
     IN  /\ (pc["worker"] = "pfLock" /\ pc'["worker"] = "pfLoop")
              => { i \in 0..(totalLines - 1) :
                     loopI'["worker"] <= i /\ i < loopEnd'["worker"] }
                   = Neighbourhood(t)
         /\ (/\ pc["worker"] = "pfLookup" /\ pc'["worker"] # "pfLookup"
             /\ loopI["worker"] \notin DOMAIN cache)
              => loopI["worker"] \in Neighbourhood(t)]_vars

\* C20: a GetLine on an in-range index that reaches its prefetch signal once
\* Close() has begun (during Close or after it) completes normally: the
\* program does not panic, the call returns, and what it returns is the
\* Record (or nil) it found for its index.
C20_GetLineSurvivesClose ==
  [][\A c \in Callers :
       (pc["closer"] # "idle" /\ GetLine_Send(c))
         => /\ ~crashed'
            /\ pc'[c] = "idle"
            /\ ret'[c] = Ref([index |-> index[c], line |-> line[c]])]_vars

(***************************************************************************)
(* Claims about the trace manager                                          *)
(***************************************************************************)
\* C8: whenever Instructions is non-empty the cursor is an index of it.
C8_CursorInLoadedSlice ==
  Instructions # << >> => (0 <= CurrentIndex /\ CurrentIndex < Len(Instructions))

\* C9: PrevLine is nil if and only if CurrentIndex is 0.
C9_PrevLineNilIffAtZero == (PrevLine = Nil) <=> (CurrentIndex = 0)

\* Next() has just returned
NextReturned == tmLast'.op = "next" /\ Running

\* what Next() does when it advances, and when it does not
NextEffect ==
  IF tmLast'.result
    THEN /\ CurrentIndex' = CurrentIndex + 1
         /\ PrevLine' = Instructions[CurrentIndex + 1]
         /\ PrevLine' = Instructions'[CurrentIndex']
         /\ PrevLine' # Nil
         /\ Instructions' = Instructions
    ELSE UNCHANGED << CurrentIndex, PrevLine, Instructions >>

\* C10 as stated: Next() returns true exactly when the cursor is not at the
\* last loaded record (CurrentIndex is not len(Instructions)-1), advancing
\* by one with PrevLine the record that was current; otherwise it returns
\* false and changes nothing.
C10_NextUnlessAtLast ==
  [][NextReturned
       => /\ tmLast'.result <=> (CurrentIndex # Len(Instructions) - 1)
          /\ NextEffect]_vars

\* C10 amended: Next() returns true exactly when a loaded record follows the
\* cursor (CurrentIndex < len(Instructions)-1); in that case CurrentIndex
\* increases by exactly one and PrevLine becomes the record that was current
\* before the call, which is the loaded record at the position before the
\* new one; otherwise it returns false and leaves CurrentIndex, PrevLine and
\* the loaded records unchanged.
C10_NextWhenRecordFollows ==
  [][NextReturned
       => /\ tmLast'.result <=> (CurrentIndex < Len(Instructions) - 1)
          /\ NextEffect]_vars

\* three Next() from position 0 of a loaded window have landed at position 3
\* with PrevLine the record at position 2, and a fourth has returned false
C10_Witness ==
  /\ tmLast.op = "next" /\ ~tmLast.result
  /\ CurrentIndex = 3 /\ Len(Instructions) = WindowSize
  /\ PrevLine = Instructions[3]
  /\ loadedRange = << 0, WindowSize >>

\* C11: in every reachable state Prev() completes normally and returns true
\* exactly when CurrentIndex > 0; then CurrentIndex decreases by exactly one
\* and PrevLine becomes the loaded record behind the new cursor (nil at 0);
\* otherwise it returns false and leaves the state unchanged.
C11_PrevRetreats ==
  [][(tmLast'.op = "prev" /\ Running)
       => /\ ~tmLast'.panic
          /\ tmLast'.result <=> (CurrentIndex > 0)
          /\ Instructions' = Instructions
          /\ IF tmLast'.result
               THEN /\ CurrentIndex' = CurrentIndex - 1
                    /\ PrevLine' = IF CurrentIndex' = 0
                                     THEN Nil
                                     ELSE Instructions[CurrentIndex']
               ELSE UNCHANGED << CurrentIndex, PrevLine >>]_vars

\* global line i lies in the loaded window, loadedRange = [start, end)
InLoadedWindow(i) == loadedRange[1] <= i /\ i < loadedRange[2]

\* the loaded record of global line i: the slice covers the lines from
\* loadedRange's start on
RecordAt(i) == TraceManager_GetLine(i - loadedRange[1])

\* C12: GoTo(index) returns false and changes nothing when index < 0 or
\* index >= Total(); for an index inside the loaded window it returns true,
\* sets CurrentIndex to index and sets PrevLine to the record at index-1
\* (nil when index is 0).
C12_GoToInWindow ==
  [][(tmLast'.op = "goto" /\ Running)
       => LET i == tmLast'.arg
          IN  /\ (i < 0 \/ i >= TraceManager_Total)
                   => /\ ~tmLast'.result
                      /\ UNCHANGED << CurrentIndex, PrevLine, Instructions >>
              /\ (i >= 0 /\ i < TraceManager_Total /\ InLoadedWindow(i))
                   => /\ tmLast'.result
                      /\ CurrentIndex' = i
                      /\ Instructions' = Instructions
                      /\ PrevLine' = IF i = 0 THEN Nil ELSE RecordAt(i - 1)]_vars

\* C13: for a target with 0 <= index < Total() outside the loaded window,
\* GoTo either returns false or leaves a window that contains index; it
\* never returns true with the cursor on an index where GetCurrent() is nil.
C13_GoToOutsideWindow ==
  [][(/\ tmLast'.op = "goto" /\ Running
      /\ tmLast'.arg >= 0 /\ tmLast'.arg < TraceManager_Total
      /\ ~InLoadedWindow(tmLast'.arg))
       => /\ \/ ~tmLast'.result
             \/ (loadedRange'[1] <= tmLast'.arg /\ tmLast'.arg < loadedRange'[2])
          /\ ~(tmLast'.result /\ GetCurrent' = Nil)]_vars

\* ParseLine made a Record of the line
HasRecord(parsed) == parsed.line # Nil

\* the Records of the parseable lines of a file whose global line numbers
\* lie in [start, end), in file order
RecordsIn(lines, start, end) ==
  LET parseable == SelectSeq(SubSeq(lines, start + 1, end), HasRecord)
  IN  [k \in 1..Len(parseable) |-> parseable[k].line]

\* C14: after ReadTraceFile succeeds, loadedRange = [start, end) satisfies
\* 0 <= start <= end <= Total() and end - start = min(windowSize, Total()),
\* and the loaded slice holds, in file order, exactly the Records of the
\* parseable lines whose global line numbers lie in [start, end).
C14_WindowHoldsItsLines ==
  [][\A name \in ManagerFiles :
       (ReadTraceFile(name) /\ tmLast'.result)
         => LET start == loadedRange'[1]
                end   == loadedRange'[2]
            IN  /\ TraceManager_Total' = Len(scanned[name])
                /\ 0 <= start /\ start <= end /\ end <= TraceManager_Total'
                /\ end - start = Min(WindowSize, TraceManager_Total')
                /\ Instructions' = RecordsIn(scanned[name], start, end)]_vars

\* C17: AddInstruction(r) makes r the last of the loaded records with the
\* earlier ones unchanged, leaves CurrentIndex and PrevLine unchanged, and
\* makes Total() its previous value plus one.
C17_AddCountsOneMore ==
  [][(tmLast'.op = "add" /\ Running)
       => /\ Instructions' = Append(Instructions, AddedRecord)
          /\ UNCHANGED << CurrentIndex, PrevLine >>
          /\ TraceManager_Total' = TraceManager_Total + 1]_vars

(***************************************************************************)
(* Claims about ParseLine                                                  *)
(***************************************************************************)
\* the fields of the line ParseLine was called on
FieldsOf(text) == Split(text, "|")

\* numeric field k (0-based) is well formed: step in base 16, the others in
\* base 0
WellFormed(fields, k) == NumField(fields, k, IF k = 0 THEN 16 ELSE 0).ok

\* the first malformed numeric field, in field order
FirstMalformed(fields) ==
  CHOOSE k \in NumericFields :
    /\ ~WellFormed(fields, k)
    /\ \A j \in NumericFields : j < k => WellFormed(fields, j)

\* the error that names numeric field k
ErrorNaming(k) ==
  IF k = 0 THEN FieldError("step", -1)
  ELSE IF k = 1 THEN FieldError("addr", -1)
  ELSE IF k = 2 THEN FieldError("offset", -1)
  ELSE IF k = 35 THEN FieldError("sp", -1)
  ELSE IF k = 36 THEN FieldError("pc", -1)
  ELSE FieldError("x", k - 4)

\* C15: a line whose field count is not 37 yields nil and an error carrying
\* the observed count; a 37-field line with a malformed numeric field yields
\* nil and an error naming the first malformed field in field order; no
\* Record comes with an error.
C15_ErrorsNameTheField ==
  parseResult # Nil
    => LET fields == FieldsOf(lineText)
           result == parseResult[1]
       IN  /\ Len(fields) # NumFields
                => result = Failed(CountError(Len(fields)))
           /\ (/\ Len(fields) = NumFields
               /\ \E k \in NumericFields : ~WellFormed(fields, k))
                => result = Failed(ErrorNaming(FirstMalformed(fields)))
           /\ result.err # Nil => result.line = Nil

\* text with one layer of surrounding double quotes removed when it is
\* quoted on both ends
Unquoted(text) ==
  IF Len(text) >= 2 /\ text[1] = "\"" /\ text[Len(text)] = "\""
    THEN SubSeq(text, 2, Len(text) - 1)
    ELSE text

\* C16: for every 37-field line whose numeric fields are all well formed,
\* whatever the text of field 3, ParseLine returns a Record and no error,
\* with Instr the trimmed field 3, one layer of surrounding double quotes
\* removed when it is quoted on both ends.
C16_InstrTrimmedAndUnquoted ==
  parseResult # Nil
    => LET fields == FieldsOf(lineText)
           result == parseResult[1]
       IN  (/\ Len(fields) = NumFields
            /\ \A k \in NumericFields : WellFormed(fields, k))
             => /\ ~result.panic
                /\ result.err = Nil
                /\ result.line # Nil
                /\ result.line[1].Instr = Unquoted(TrimSpace(fields[4]))

=============================================================================
